---- MODULE Spec2Model ----
(***************************************************************************)
(* A model of the DICOM anonymizer of this repository:                     *)
(*   src/anonym/anonym.py              class AnonymDICOM (batch tool)      *)
(*   src/app/core/security.py          hash_patient_id                     *)
(*                                                                         *)
(* A dataset (pydicom.Dataset) is a function from tags to elements; a tag  *)
(* is written as the keyword of the DICOM dictionary, or as "(gggg,eeee)"  *)
(* for an element the dictionary does not know or a private one (their     *)
(* keyword is the empty string).  An element is a record                   *)
(*   [kw, vr, val, items, private]                                         *)
(* where val is the tuple of the element's values (<<>> is the empty       *)
(* value, one entry is VM 1, more entries are VM > 1) and items is the     *)
(* tuple of the item datasets of a sequence (VR SQ).                       *)
(* File names are tuples of one-character strings, so that the regular     *)
(* expression and int() of run are computed and not assumed.               *)
(***************************************************************************)
EXTENDS Integers, Sequences, FiniteSets, TLC

VARIABLES
    environ,            \* the process environment (os.environ)
    disk,               \* input directory: file name -> what dcmread and the I/O of that file do
    input_files,        \* self.input_files
    rules,              \* self.rules
    remove_private,     \* self.remove_private
    comparison,         \* args.comparison
    uid_next,           \* the entropy of pydicom's generate_uid: the next number it draws
    uid_map,            \* self.uid_map
    audit_log,          \* self.audit_log
    pesel_number,       \* self.pesel_number
    batch_study_uid,    \* self.batch_study_uid
    batch_series_uid,   \* self.batch_series_uid
    file_data,          \* run: file_data after the sort
    current_series_key, \* run: current_series_key
    index,              \* run: the loop's index (1-based), the next file to attempt
    ds_orig,            \* run: ds_orig of the last file read
    ds,                 \* run: ds of the last file read
    out_dir,            \* the output folder: file name -> the loop index that wrote the file
    attempts,           \* history: one record per loop iteration, in order
    diff_returns,       \* history: the lists returned by _compare_files_internal
    pc                  \* position in run: "start", "loop", "done", "aborted"; "diff" for the diff harness

vars == <<environ, disk, input_files, rules, remove_private, comparison, uid_next,
          uid_map, audit_log, pesel_number, batch_study_uid, batch_series_uid,
          file_data, current_series_key, index, ds_orig, ds, out_dir, attempts,
          diff_returns, pc>>

-----------------------------------------------------------------------------
(* Bounds of the model *)

\* the longest input list of the sequencing specification SpecNames
MaxFiles == 3
\* the longest input list of the tree specification Spec
MaxTreeFiles == 2
\* how often the diff harness SpecDiff calls the diff on one pair
MaxDiffCalls == 2
\* how many datasets the HTTP engine is given in SpecPrograms
MaxRequests == 2

-----------------------------------------------------------------------------
(* Python values *)

\* Python's None where the code holds a string or None
None == "<None>"

\* truth value of a string-or-None (if self.batch_series_uid:)
Truthy(v) == v \notin {None, ""}

\* an Option for current_series_key, whose values are character tuples
NoKey == [some |-> FALSE, v |-> <<>>]
SomeKey(k) == [some |-> TRUE, v |-> k]

Digits == {"0", "1", "2", "3", "4", "5", "6", "7", "8", "9"}

DigitVal(c) ==
    CASE c = "0" -> 0 [] c = "1" -> 1 [] c = "2" -> 2 [] c = "3" -> 3 [] c = "4" -> 4
      [] c = "5" -> 5 [] c = "6" -> 6 [] c = "7" -> 7 [] c = "8" -> 8 [] c = "9" -> 9

\* int(s) of a string of decimal digits: leading zeros do not count
RECURSIVE PyInt(_)
PyInt(s) ==
    IF s = <<>> THEN 0
    ELSE 10 * PyInt(SubSeq(s, 1, Len(s) - 1)) + DigitVal(s[Len(s)])

\* str(n) of a natural number, as a character tuple
RECURSIVE PyStrNat(_)
PyStrNat(n) ==
    LET d == CASE n % 10 = 0 -> "0" [] n % 10 = 1 -> "1" [] n % 10 = 2 -> "2"
               [] n % 10 = 3 -> "3" [] n % 10 = 4 -> "4" [] n % 10 = 5 -> "5"
               [] n % 10 = 6 -> "6" [] n % 10 = 7 -> "7" [] n % 10 = 8 -> "8"
               [] n % 10 = 9 -> "9"
    IN IF n < 10 THEN <<d>> ELSE Append(PyStrNat(n \div 10), d)

\* f"{n:0{width}}": str(n) padded with zeros on the left to the width
RECURSIVE ZeroPad(_, _)
ZeroPad(s, width) == IF Len(s) >= width THEN s ELSE ZeroPad(<<"0">> \o s, width)

\* the last n characters of s (s[-n:])
LastChars(s, n) == IF Len(s) <= n THEN s ELSE SubSeq(s, Len(s) - n + 1, Len(s))

-----------------------------------------------------------------------------
(* run: the file name pattern  IM-(\d+)-(\d+)\.dcm$  with re.IGNORECASE *)

\* how many digits end at position i of s, reading backwards
RECURSIVE DigitRunBack(_, _)
DigitRunBack(s, i) ==
    IF i >= 1 /\ s[i] \in Digits THEN 1 + DigitRunBack(s, i - 1) ELSE 0

\* pattern.search(name): the groups (s_str, i_str), or no match.  The match is
\* anchored at the end of the name and may start anywhere in it.
PatternSearch(name) ==
    LET n  == Len(name)
        e2 == n - 4                       \* last character of (\d+) number two
        k2 == DigitRunBack(name, e2)
        e1 == e2 - k2 - 1                 \* last character of (\d+) number one
        k1 == DigitRunBack(name, e1)
        b  == e1 - k1                     \* the "-" after IM
        ok == /\ n >= 4
              /\ name[n - 3] = "."
              /\ name[n - 2] \in {"d", "D"}
              /\ name[n - 1] \in {"c", "C"}
              /\ name[n] \in {"m", "M"}
              /\ k2 >= 1
              /\ e2 - k2 >= 1 /\ name[e2 - k2] = "-"
              /\ k1 >= 1
              /\ b >= 3 /\ name[b] = "-"
              /\ name[b - 1] \in {"m", "M"}
              /\ name[b - 2] \in {"i", "I"}
    IN IF ok
       THEN [match |-> TRUE,
             s_str |-> SubSeq(name, e1 - k1 + 1, e1),
             i_str |-> SubSeq(name, e2 - k2 + 1, e2)]
       ELSE [match |-> FALSE, s_str |-> <<>>, i_str |-> <<>>]

NON_PATTERN == <<"N", "O", "N", "_", "P", "A", "T", "T", "E", "R", "N">>

\* a sort key component: an int, or float('inf')
Num(n) == [inf |-> FALSE, n |-> n]
Inf == [inf |-> TRUE, n |-> 0]

NumLess(a, b) == ~a.inf /\ (b.inf \/ a.n < b.n)

\* the entry run appends to file_data for one input file
FileDataEntry(f) ==
    LET m == PatternSearch(f)
    IN IF m.match
       THEN [path |-> f,
             series_sort |-> Num(PyInt(m.s_str)),
             image_sort |-> Num(PyInt(m.i_str)),
             series_str |-> m.s_str,
             image_str |-> m.i_str,
             is_pattern |-> TRUE]
       ELSE [path |-> f,
             series_sort |-> Inf,
             image_sort |-> Inf,
             series_str |-> NON_PATTERN,
             image_str |-> <<"0", "0", "0", "0">>,
             is_pattern |-> FALSE]

\* the comparison of a sort key that is the series number alone
KeyLessSeriesOnly(x, y) ==
    NumLess(x.series_sort, y.series_sort)

\* the comparison of the sort keys (x['series_sort'], x['image_sort'])
KeyLess(x, y) ==
    \/ NumLess(x.series_sort, y.series_sort)
    \/ /\ x.series_sort = y.series_sort
       /\ NumLess(x.image_sort, y.image_sort)

\* list.sort(key=...) is stable: an entry goes after every entry not greater than it
RECURSIVE InsertSorted(_, _)
InsertSorted(sorted, x) ==
    IF sorted = <<>> THEN <<x>>
    ELSE IF KeyLess(x, Head(sorted)) THEN <<x>> \o sorted
    ELSE <<Head(sorted)>> \o InsertSorted(Tail(sorted), x)

RECURSIVE SortFileData(_)
SortFileData(fd) ==
    IF fd = <<>> THEN <<>>
    ELSE InsertSorted(SortFileData(SubSeq(fd, 1, Len(fd) - 1)), fd[Len(fd)])

\* file_data as run builds and sorts it
BuildFileData(files) == SortFileData([i \in 1..Len(files) |-> FileDataEntry(files[i])])

-----------------------------------------------------------------------------
(* Datasets *)

\* every tag of the model, in ascending tag order (the order a Dataset iterates in)
TagOrder ==
    << "SOPInstanceUID",            \* (0008,0018) UI
       "StudyDate",                 \* (0008,0020) DA
       "SeriesDate",                \* (0008,0021) DA
       "ContentDate",               \* (0008,0023) DA
       "InstitutionName",           \* (0008,0080) LO
       "ReferencedSeriesSequence",  \* (0008,1115) SQ
       "ReferencedSOPInstanceUID",  \* (0008,1155) UI
       "(0008,9999)",               \* a public tag the dictionary does not know
       "(0009,1001)",               \* a private tag
       "PatientName",               \* (0010,0010) PN
       "PatientID",                 \* (0010,0020) LO
       "PatientIdentityRemoved",    \* (0012,0062) CS
       "DeidentificationMethod",    \* (0012,0063) LO
       "StudyInstanceUID",          \* (0020,000D) UI
       "SeriesInstanceUID",         \* (0020,000E) UI
       "InstanceNumber"             \* (0020,0013) IS
    >>

\* the VR the DICOM dictionary gives a keyword (used when an attribute is created)
DictVR(kw) ==
    CASE kw \in {"SOPInstanceUID", "StudyInstanceUID", "SeriesInstanceUID",
                 "ReferencedSOPInstanceUID"} -> "UI"
      [] kw \in {"StudyDate", "SeriesDate", "ContentDate"} -> "DA"
      [] kw \in {"InstitutionName", "PatientID", "DeidentificationMethod"} -> "LO"
      [] kw = "PatientName" -> "PN"
      [] kw = "PatientIdentityRemoved" -> "CS"
      [] kw = "InstanceNumber" -> "IS"
      [] kw = "ReferencedSeriesSequence" -> "SQ"
      [] OTHER -> "UN"

\* an element with a value
Elem(kw, val) ==
    [kw |-> kw, vr |-> DictVR(kw), val |-> val, items |-> <<>>, private |-> FALSE]

\* a sequence element of the dictionary
SeqElem(kw, items) ==
    [kw |-> kw, vr |-> "SQ", val |-> <<>>, items |-> items, private |-> FALSE]

\* a sequence element without keyword: private, or unknown to the dictionary
NoKeywordSeq(items, private) ==
    [kw |-> "", vr |-> "SQ", val |-> <<>>, items |-> items, private |-> private]

\* the tags of a dataset in iteration order (for elem in dataset)
TagsOf(d) == SelectSeq(TagOrder, LAMBDA t : t \in DOMAIN d)

\* del dataset[tag]
DelTag(d, t) == [u \in DOMAIN d \ {t} |-> d[u]]

\* dataset.<kw> = value: sets the value of the element, creating it when absent
SetAttr(d, kw, val) ==
    IF kw \in DOMAIN d
    THEN [d EXCEPT ![kw].val = val]
    ELSE [u \in DOMAIN d \cup {kw} |-> IF u = kw THEN Elem(kw, val) ELSE d[u]]

\* str(elem.value)
RECURSIVE JoinRepr(_)
JoinRepr(val) ==
    IF Len(val) = 1 THEN "'" \o val[1] \o "'"
    ELSE "'" \o val[1] \o "', " \o JoinRepr(Tail(val))

Str(val) ==
    IF val = <<>> THEN ""
    ELSE IF Len(val) = 1 THEN val[1]
    ELSE "[" \o JoinRepr(val) \o "]"

\* dataset.get(keyword, default): the value of the element, as str() gives it
GetStr(d, kw, default) == IF kw \in DOMAIN d THEN Str(d[kw].val) ELSE default

\* Dataset.remove_private_tags(): walks the whole tree
RECURSIVE RemovePrivateTags(_)
RemovePrivateTags(d) ==
    [t \in {u \in DOMAIN d : ~d[u].private} |->
        LET its == d[t].items
        IN [d[t] EXCEPT !.items = [i \in 1..Len(its) |-> RemovePrivateTags(its[i])]]]

-----------------------------------------------------------------------------
(* Identifiers and hashes *)

\* os.getenv(name, default)
Getenv(env, name, default) == IF name \in DOMAIN env THEN env[name] ELSE default

\* anonym.py: SECRET_PEPPER
SECRET_PEPPER == Getenv(environ, "PEPPER", "default_pepper_if_env_missing")

\* app/core/config.py: SECRET_PEPPER
CONFIG_SECRET_PEPPER == Getenv(environ, "SECRET_PEPPER", "default_insecure_pepper")

\* hashlib.sha256(s.encode('utf-8')).hexdigest(): a digest is written as a term over
\* its input; distinct inputs give distinct digests and no digest is empty
Sha256Hex(s) == "sha256(" \o s \o ")"

\* hashed_id[:8]: the first eight hex digits of a digest, written as a term
Prefix8(h) == "8:" \o h

\* pydicom.uid.generate_uid(): the n-th identifier the generator draws
GenerateUid(n) == "2.25." \o ToString(n)

\* AnonymDICOM._generate_hashed_id
GenerateHashedId(original_id) == Sha256Hex(original_id \o SECRET_PEPPER)

\* app/core/security.py: hash_patient_id
HashPatientId(original_id) ==
    IF original_id = "" THEN "" ELSE Sha256Hex(original_id \o CONFIG_SECRET_PEPPER)

\* AnonymDICOM._generate_consistent_uid; self carries uid_map and the generator
GenerateConsistentUid(self, original_uid) ==
    IF original_uid \notin DOMAIN self.uid_map
    THEN [self |-> [self EXCEPT
                      !.uid_map = [k \in DOMAIN self.uid_map \cup {original_uid} |->
                                      IF k = original_uid THEN GenerateUid(self.uid_next)
                                      ELSE self.uid_map[k]],
                      !.uid_next = self.uid_next + 1],
          uid |-> GenerateUid(self.uid_next)]
    ELSE [self |-> self, uid |-> self.uid_map[original_uid]]

\* [self._generate_consistent_uid(u) for u in elem.value]
RECURSIVE ConsistentUidList(_, _)
ConsistentUidList(self, val) ==
    IF val = <<>> THEN [self |-> self, val |-> <<>>]
    ELSE LET r1 == GenerateConsistentUid(self, Head(val))
             r2 == ConsistentUidList(r1.self, Tail(val))
         IN [self |-> r2.self, val |-> <<r1.uid>> \o r2.val]

\* AnonymDICOM._get_replacement_value: static_defaults.get(vr, "ANONYMIZED")
StaticDefault(vr) ==
    CASE vr \in {"DA", "TM", "DT"} -> ""
      [] vr \in {"PN", "LO", "SH", "ST", "LT", "UT", "AE"} -> "ANONYMIZED"
      [] vr = "AS" -> "000Y"
      [] vr = "CS" -> "U"
      [] vr \in {"DS", "IS"} -> "0"
      [] OTHER -> "ANONYMIZED"

\* AnonymDICOM._get_replacement_value; the value and the generator after the call
GetReplacementValue(self, vr, action) ==
    IF action = "D" THEN [self |-> self, value |-> ""]
    ELSE IF vr = "UI"
    THEN [self |-> [self EXCEPT !.uid_next = self.uid_next + 1],
          value |-> GenerateUid(self.uid_next)]
    ELSE [self |-> self, value |-> StaticDefault(vr)]

\* elem.value = s for a string s: the empty string is the empty value
ValueOf(s) == IF s = "" THEN <<>> ELSE <<s>>

-----------------------------------------------------------------------------
(* The tag transformer.  self is the AnonymDICOM object as a record:        *)
(*   [rules, remove_private, batch_study_uid, batch_series_uid, uid_map,    *)
(*    uid_next, pesel_number, audit_log]                                    *)
(* A method that changes the object returns the object after the call.      *)

\* keyword in self.rules and self.rules[keyword] == action
Ruled(self, kw, action) == kw \in DOMAIN self.rules /\ self.rules[kw] = action

RECURSIVE ProcessDataset(_, _, _)
RECURSIVE ProcessElems(_, _, _, _)
RECURSIVE ProcessItems(_, _, _)

\* for item in elem.value: self._process_dataset_recursive(item)
ProcessItems(self, items, strip_raises) ==
    IF items = <<>> THEN [self |-> self, items |-> <<>>]
    ELSE LET r1 == ProcessDataset(self, Head(items), strip_raises)
             r2 == ProcessItems(r1.self, Tail(items), strip_raises)
         IN [self |-> r2.self, items |-> <<r1.ds>> \o r2.items]

\* the body of  for elem in list(dataset)  for the elements that are left
ProcessElems(self, dataset, tags, strip_raises) ==
    IF tags = <<>> THEN [self |-> self, ds |-> dataset]
    ELSE
      LET t == Head(tags)
          elem == dataset[t]
          keyword == elem.kw
          rest == Tail(tags)
      IN
      IF keyword = "" THEN ProcessElems(self, dataset, rest, strip_raises)
      ELSE IF keyword = "StudyInstanceUID"
      THEN ProcessElems(self, [dataset EXCEPT ![t].val = ValueOf(self.batch_study_uid)],
                        rest, strip_raises)
      ELSE IF keyword = "SeriesInstanceUID"
      THEN IF Truthy(self.batch_series_uid)
           THEN ProcessElems(self,
                             [dataset EXCEPT ![t].val = ValueOf(self.batch_series_uid)],
                             rest, strip_raises)
           ELSE ProcessElems(self, dataset, rest, strip_raises)
      ELSE IF elem.vr = "SQ"
      THEN IF Ruled(self, keyword, "X")
           THEN ProcessElems(self, DelTag(dataset, t), rest, strip_raises)
           ELSE LET r == ProcessItems(self, elem.items, strip_raises)
                IN ProcessElems(r.self, [dataset EXCEPT ![t].items = r.items],
                                rest, strip_raises)
      ELSE IF keyword \in DOMAIN self.rules
      THEN LET action == self.rules[keyword]
           IN IF action = "X"
              THEN ProcessElems(self, DelTag(dataset, t), rest, strip_raises)
              ELSE IF action = "U"
              THEN IF elem.val # <<>>
                   THEN IF Len(elem.val) > 1
                        THEN LET r == ConsistentUidList(self, elem.val)
                             IN ProcessElems(r.self, [dataset EXCEPT ![t].val = r.val],
                                             rest, strip_raises)
                        ELSE LET r == GenerateConsistentUid(self, elem.val[1])
                             IN ProcessElems(r.self,
                                             [dataset EXCEPT ![t].val = ValueOf(r.uid)],
                                             rest, strip_raises)
                   ELSE ProcessElems(self, dataset, rest, strip_raises)
              ELSE IF action \in {"Z", "D"}
              THEN LET r == GetReplacementValue(self, elem.vr, action)
                   IN ProcessElems(r.self, [dataset EXCEPT ![t].val = ValueOf(r.value)],
                                   rest, strip_raises)
              ELSE ProcessElems(self, dataset, rest, strip_raises)
      ELSE ProcessElems(self, dataset, rest, strip_raises)

\* AnonymDICOM._process_dataset_recursive.  strip_raises: remove_private_tags raises
\* on this file (the exception is swallowed and nothing is stripped)
ProcessDataset(self, dataset, strip_raises) ==
    LET stripped == IF self.remove_private /\ ~strip_raises
                    THEN RemovePrivateTags(dataset)
                    ELSE dataset
    IN ProcessElems(self, stripped, TagsOf(stripped), strip_raises)

\* datetime.now().strftime('%Y%m%d'): the day of the run
Today == "20261105"

\* _finalize_metadata hashing raw_id, the PatientID the transformed dataset holds,
\* for self.pesel_number
FinalizeMetadataRawId(self, dataset, idx) ==
    LET hashed_id == GenerateHashedId(GetStr(dataset, "PatientID", "UNKNOWN_PATIENT"))
        d1 == SetAttr(dataset, "PatientID", ValueOf(hashed_id))
        d2 == SetAttr(d1, "PatientName", ValueOf(Prefix8(hashed_id) \o "^Anonym"))
        d3 == SetAttr(d2, "ContentDate", ValueOf(Today))
        d4 == SetAttr(d3, "SeriesDate", ValueOf(Today))
        d5 == SetAttr(d4, "StudyDate", ValueOf(Today))
        d6 == SetAttr(d5, "InstanceNumber", ValueOf(ToString(idx)))
        d7 == SetAttr(d6, "PatientIdentityRemoved", ValueOf("YES"))
    IN SetAttr(d7, "DeidentificationMethod",
               ValueOf("DICOM PS3.15 Basic Profile + SHA256"))

\* AnonymDICOM._finalize_metadata
FinalizeMetadata(self, dataset, idx) ==
    LET hashed_id == GenerateHashedId(self.pesel_number)
        d1 == SetAttr(dataset, "PatientID", ValueOf(hashed_id))
        d2 == SetAttr(d1, "PatientName", ValueOf(Prefix8(hashed_id) \o "^Anonym"))
        d3 == SetAttr(d2, "ContentDate", ValueOf(Today))
        d4 == SetAttr(d3, "SeriesDate", ValueOf(Today))
        d5 == SetAttr(d4, "StudyDate", ValueOf(Today))
        d6 == SetAttr(d5, "InstanceNumber", ValueOf(ToString(idx)))
        d7 == SetAttr(d6, "PatientIdentityRemoved", ValueOf("YES"))
    IN SetAttr(d7, "DeidentificationMethod",
               ValueOf("DICOM PS3.15 Basic Profile + SHA256"))

-----------------------------------------------------------------------------
(* The audit / diff engine *)

\* str() of a dataset and of a sequence value, as a term over the tree
RECURSIVE DatasetStr(_)
RECURSIVE ElemsStr(_, _)
RECURSIVE ItemsStr(_)

ItemsStr(items) ==
    IF items = <<>> THEN "" ELSE DatasetStr(Head(items)) \o ItemsStr(Tail(items))

ElemsStr(d, tags) ==
    IF tags = <<>> THEN ""
    ELSE LET e == d[Head(tags)]
         IN Head(tags) \o " " \o e.vr \o ": "
              \o (IF e.vr = "SQ" THEN "[" \o ItemsStr(e.items) \o "]" ELSE Str(e.val))
              \o "\n" \o ElemsStr(d, Tail(tags))

DatasetStr(d) == ElemsStr(d, TagsOf(d))

\* str(elem.value)
StrValue(e) == IF e.vr = "SQ" THEN "[" \o ItemsStr(e.items) \o "]" ELSE Str(e.val)

\* the truth value of a Dataset: it is false when the dataset holds no element
DatasetTruthy(d) == DOMAIN d # {}

\* one audit record as _compare_recursive appends it
AuditRecord(tag, action, status, original, anonymized) ==
    [Tag |-> tag, Action |-> action, Status |-> status,
     Original |-> original, Anonymized |-> anonymized]

\* the status _compare_recursive gives a ruled element that is no sequence;
\* has_out: elem_out is not None.  "raise": elem_out.value of None
ScalarStatus(keyword, action, elem, has_out, val_out, val_anon) ==
    IF keyword \in {"StudyInstanceUID", "SeriesInstanceUID"} THEN "OK"
    ELSE IF action = "X"
    THEN IF has_out /\ val_anon # "" THEN "FAIL (Leak)" ELSE "OK"
    ELSE IF action = "D"
    THEN IF val_anon # "" THEN "FAIL (Not Empty)" ELSE "OK"
    ELSE IF action = "Z"
    THEN IF ~has_out THEN "raise"
         ELSE IF Str(elem.val) = val_out /\ Str(elem.val) # ""
         THEN "FAIL (No Change)" ELSE "OK"
    ELSE IF action = "U"
    THEN IF ~has_out THEN "raise"
         ELSE IF Str(elem.val) = val_out THEN "FAIL (UID match)" ELSE "OK"
    ELSE "OK"

RECURSIVE CompareRecursive(_, _, _, _, _)
RECURSIVE CompareElems(_, _, _, _, _, _)
RECURSIVE CompareItems(_, _, _, _, _, _)

\* for i, item_orig in enumerate(elem.value): if i < len(elem_out.value): recurse
CompareItems(self, items_in, items_out, i, results, current_path) ==
    IF i >= Len(items_in) THEN [raised |-> FALSE, results |-> results]
    ELSE IF i < Len(items_out)
    THEN LET r == CompareRecursive(self, items_in[i + 1], items_out[i + 1], results,
                                   current_path \o "[" \o ToString(i) \o "]")
         IN IF r.raised THEN r
            ELSE CompareItems(self, items_in, items_out, i + 1, r.results, current_path)
    ELSE CompareItems(self, items_in, items_out, i + 1, results, current_path)

\* the body of  for elem in ds_in  for the elements that are left
CompareElems(self, ds_in, tags, ds_out, results, path) ==
    IF tags = <<>> THEN [raised |-> FALSE, results |-> results]
    ELSE
      LET t == Head(tags)
          elem == ds_in[t]
          keyword == elem.kw
          rest == Tail(tags)
          current_path == IF path # "ROOT" THEN path \o "." \o keyword ELSE keyword
          has_out == DatasetTruthy(ds_out) /\ t \in DOMAIN ds_out
          val_orig == StrValue(elem)
          val_out == IF has_out THEN StrValue(ds_out[t]) ELSE ""
          val_anon == IF has_out THEN val_out ELSE "MISSING"
      IN
      IF keyword = "" THEN CompareElems(self, ds_in, rest, ds_out, results, path)
      ELSE IF elem.vr = "SQ"
      THEN IF Ruled(self, keyword, "X")
           THEN LET status == IF ~has_out THEN "OK" ELSE "FAIL (Should delete)"
                IN CompareElems(self, ds_in, rest, ds_out,
                                Append(results, AuditRecord(current_path, "X (Seq)",
                                                            status, "Seq", val_anon)),
                                path)
           ELSE IF has_out /\ elem.items # <<>>
           THEN LET r == CompareItems(self, elem.items, ds_out[t].items, 0, results,
                                      current_path)
                IN IF r.raised THEN r
                   ELSE CompareElems(self, ds_in, rest, ds_out, r.results, path)
           ELSE CompareElems(self, ds_in, rest, ds_out, results, path)
      ELSE IF keyword \in DOMAIN self.rules
      THEN LET action == self.rules[keyword]
               status == ScalarStatus(keyword, action, elem, has_out, val_out, val_anon)
           IN IF status = "raise" THEN [raised |-> TRUE, results |-> results]
              ELSE CompareElems(self, ds_in, rest, ds_out,
                                Append(results, AuditRecord(current_path, action, status,
                                                            val_orig, val_anon)),
                                path)
      ELSE CompareElems(self, ds_in, rest, ds_out, results, path)

\* AnonymDICOM._compare_recursive: results after the call, or raised
CompareRecursive(self, ds_in, ds_out, results, path) ==
    CompareElems(self, ds_in, TagsOf(ds_in), ds_out, results, path)

\* item['File'] = filename
WithFile(item, filename) ==
    [Tag |-> item.Tag, Action |-> item.Action, Status |-> item.Status,
     Original |-> item.Original, Anonymized |-> item.Anonymized, File |-> filename]

\* len([d for d in diffs if "FAIL" in d['Status']])
CountFail(diffs) == Cardinality({i \in 1..Len(diffs) : diffs[i].Status # "OK"})

\* _compare_files_internal with  diffs = self.audit_log  for  diffs = []: the list
\* handed to _compare_recursive is the run-wide log
CompareFilesInternalSharedList(self, orig, anon, filename) ==
    LET r == CompareRecursive(self, orig, anon, self.audit_log, "ROOT")
        diffs == [i \in 1..Len(r.results) |-> WithFile(r.results[i], filename)]
    IN IF r.raised
       THEN [raised |-> TRUE, self |-> self, fails |-> 0, diffs |-> <<>>]
       ELSE [raised |-> FALSE,
             self |-> [self EXCEPT !.audit_log = diffs],
             fails |-> CountFail(diffs),
             diffs |-> diffs]

\* AnonymDICOM._compare_files_internal: the object after the call and what it returns
CompareFilesInternal(self, orig, anon, filename) ==
    LET r == CompareRecursive(self, orig, anon, <<>>, "ROOT")
        diffs == [i \in 1..Len(r.results) |-> WithFile(r.results[i], filename)]
    IN IF r.raised
       THEN [raised |-> TRUE, self |-> self, fails |-> 0, diffs |-> <<>>]
       ELSE [raised |-> FALSE,
             self |-> [self EXCEPT !.audit_log = self.audit_log \o diffs],
             fails |-> CountFail(diffs),
             diffs |-> diffs]

-----------------------------------------------------------------------------
(* AnonymDICOM.run *)

\* the AnonymDICOM object of the current state
Self ==
    [rules |-> rules, remove_private |-> remove_private,
     batch_study_uid |-> batch_study_uid, batch_series_uid |-> batch_series_uid,
     uid_map |-> uid_map, uid_next |-> uid_next,
     pesel_number |-> pesel_number, audit_log |-> audit_log]

\* the object after the series UID logic at the top of the loop body
AfterSeriesLogic(self, key, item) ==
    IF SomeKey(item.series_str) # key
    THEN [self |-> [self EXCEPT !.batch_series_uid = GenerateUid(self.uid_next),
                                !.uid_next = self.uid_next + 1],
          key |-> SomeKey(item.series_str)]
    ELSE [self |-> self, key |-> key]

\* batch_study_uid.split('.')[-1]: the decimal digits of the number the identifier ends in
LastComponent(uid) == PyStrNat(CHOOSE n \in 0..uid_next : GenerateUid(n) = uid)

\* padding = len(str(len(self.input_files)))
Padding == Len(PyStrNat(Len(input_files)))

\* study_prefix = self.batch_study_uid.split('.')[-1][-6:]
StudyPrefix == LastChars(LastComponent(batch_study_uid), 6)

DotDcm == <<".", "d", "c", "m">>

\* new_filename of the loop body
NewFilename(item, idx) ==
    IF item.is_pattern
    THEN <<"A", "N", "-">> \o item.series_str \o <<"-">> \o item.image_str \o DotDcm
    ELSE <<"S", "T", "_">> \o StudyPrefix \o <<"_">> \o ZeroPad(PyStrNat(idx), Padding)
           \o DotDcm

\* ds.save_as(path): the folder with the file written (an existing file is replaced);
\* the content of a file is the tree "anon" of the loop iteration that wrote it
SaveAs(folder, name, idx) ==
    [n \in DOMAIN folder \cup {name} |-> IF n = name THEN idx ELSE folder[n]]

\* the loop body up to the end of _finalize_metadata, for a file dcmread can read
Transformed(item, idx) ==
    LET s1 == AfterSeriesLogic(Self, current_series_key, item)
        tree == disk[item.path].tree
        s2 == [s1.self EXCEPT !.pesel_number = GetStr(tree, "PatientID", "")]
        r == ProcessDataset(s2, tree, disk[item.path].strip_raises)
    IN [self |-> r.self, key |-> s1.key, orig |-> tree,
        anon |-> FinalizeMetadata(r.self, r.ds, idx),
        new_filename |-> NewFilename(item, idx)]

\* the record of one loop iteration (history)
Attempt(item, idx, outcome, self, orig, anon, new_filename, written, audited) ==
    [path |-> item.path, index |-> idx, outcome |-> outcome,
     series_str |-> item.series_str, series_uid |-> self.batch_series_uid,
     pesel |-> self.pesel_number, orig |-> orig, anon |-> anon,
     new_filename |-> new_filename, written |-> written, audited |-> audited]

\* the state of the object and of the loop after one iteration
LoopEffect(self, key) ==
    /\ uid_map' = self.uid_map
    /\ uid_next' = self.uid_next
    /\ audit_log' = self.audit_log
    /\ pesel_number' = self.pesel_number
    /\ batch_series_uid' = self.batch_series_uid
    /\ current_series_key' = key
    /\ index' = index + 1
    /\ UNCHANGED <<environ, disk, input_files, rules, remove_private, comparison,
                   batch_study_uid, file_data, pc>>

InLoop == pc = "loop" /\ index <= Len(file_data)

\* run up to the loop: file_data is built and sorted; with --comparison the first
\* file is read outside any try
RunStart ==
    /\ pc = "start"
    /\ LET fd == BuildFileData(input_files)
       IN /\ ~(comparison /\ fd # <<>> /\ ~disk[fd[1].path].readable)
          /\ file_data' = fd
    /\ current_series_key' = NoKey
    /\ index' = 1
    /\ pc' = "loop"
    /\ UNCHANGED <<environ, disk, input_files, rules, remove_private, comparison,
                   uid_next, uid_map, audit_log, pesel_number, batch_study_uid,
                   batch_series_uid, ds_orig, ds, out_dir, attempts, diff_returns>>

\* pydicom.dcmread(file_data[0]['path']) of --comparison raises: run ends in the exception
RunStartRaises ==
    /\ pc = "start"
    /\ LET fd == BuildFileData(input_files)
       IN /\ comparison /\ fd # <<>> /\ ~disk[fd[1].path].readable
          /\ file_data' = fd
    /\ pc' = "aborted"
    /\ UNCHANGED <<environ, disk, input_files, rules, remove_private, comparison,
                   uid_next, uid_map, audit_log, pesel_number, batch_study_uid,
                   batch_series_uid, current_series_key, index, ds_orig, ds, out_dir,
                   attempts, diff_returns>>

\* one loop iteration: dcmread raises
FileReadError ==
    /\ InLoop
    /\ LET item == file_data[index]
           s1 == AfterSeriesLogic(Self, current_series_key, item)
       IN /\ ~disk[item.path].readable
          /\ LoopEffect(s1.self, s1.key)
          /\ attempts' = Append(attempts,
                 Attempt(item, index, "read error", s1.self, <<>>, <<>>, <<>>, FALSE, FALSE))
    /\ UNCHANGED <<ds_orig, ds, out_dir, diff_returns>>

\* the loop body with ds.save_as in a finally clause: the tree is written as far as
\* the walk got
FileTransformErrorSavedAnyway ==
    /\ InLoop
    /\ LET item == file_data[index]
       IN /\ disk[item.path].readable
          /\ disk[item.path].fault = "transform"
          /\ \E late \in BOOLEAN :
               LET t == Transformed(item, index)
                   s1 == AfterSeriesLogic(Self, current_series_key, item)
                   s2 == [s1.self EXCEPT !.pesel_number = t.self.pesel_number]
                   self == IF late THEN t.self ELSE s2
                   tree == IF late THEN t.anon ELSE t.orig
               IN /\ LoopEffect(self, t.key)
                  /\ ds_orig' = t.orig
                  /\ ds' = tree
                  /\ out_dir' = SaveAs(out_dir, t.new_filename, index)
                  /\ attempts' = Append(attempts,
                        Attempt(item, index, "transform error", self, t.orig, tree, <<>>,
                                FALSE, FALSE))
    /\ UNCHANGED <<diff_returns>>

\* one loop iteration: _process_dataset_recursive or _finalize_metadata raises; the
\* registry holds what the walk put there before (late) or nothing of it
FileTransformError ==
    /\ InLoop
    /\ LET item == file_data[index]
       IN /\ disk[item.path].readable
          /\ disk[item.path].fault = "transform"
          /\ \E late \in BOOLEAN :
               LET t == Transformed(item, index)
                   s1 == AfterSeriesLogic(Self, current_series_key, item)
                   s2 == [s1.self EXCEPT !.pesel_number = t.self.pesel_number]
                   self == IF late THEN t.self ELSE s2
                   tree == IF late THEN t.anon ELSE t.orig
               IN /\ LoopEffect(self, t.key)
                  /\ ds_orig' = t.orig
                  /\ ds' = tree
                  /\ attempts' = Append(attempts,
                        Attempt(item, index, "transform error", self, t.orig, tree, <<>>,
                                FALSE, FALSE))
    /\ UNCHANGED <<out_dir, diff_returns>>

\* one loop iteration: ds.save_as raises
FileSaveError ==
    /\ InLoop
    /\ LET item == file_data[index]
           t == Transformed(item, index)
       IN /\ disk[item.path].readable
          /\ disk[item.path].fault = "save"
          /\ LoopEffect(t.self, t.key)
          /\ ds_orig' = t.orig
          /\ ds' = t.anon
          /\ attempts' = Append(attempts,
                Attempt(item, index, "save error", t.self, t.orig, t.anon, t.new_filename,
                        FALSE, FALSE))
    /\ UNCHANGED <<out_dir, diff_returns>>

\* what a call of _compare_files_internal gave its caller (history)
Returned(c) == [raised |-> c.raised, fails |-> c.fails, diffs |-> c.diffs]

\* one loop iteration: the file is written and _compare_files_internal raises
FileDiffError ==
    /\ InLoop
    /\ LET item == file_data[index]
           t == Transformed(item, index)
           c == CompareFilesInternal(t.self, t.orig, t.anon, t.new_filename)
       IN /\ disk[item.path].readable
          /\ disk[item.path].fault \in {"none", "diff"}
          /\ c.raised \/ disk[item.path].fault = "diff"
          /\ LoopEffect(t.self, t.key)
          /\ ds_orig' = t.orig
          /\ ds' = t.anon
          /\ out_dir' = SaveAs(out_dir, t.new_filename, index)
          /\ attempts' = Append(attempts,
                Attempt(item, index, "diff error", t.self, t.orig, t.anon, t.new_filename,
                        TRUE, FALSE))
    /\ UNCHANGED <<diff_returns>>

\* one loop iteration: file written, audit records appended, _save_individual_reports raises
FileReportError ==
    /\ InLoop
    /\ LET item == file_data[index]
           t == Transformed(item, index)
           c == CompareFilesInternal(t.self, t.orig, t.anon, t.new_filename)
       IN /\ disk[item.path].readable
          /\ disk[item.path].fault = "report"
          /\ ~c.raised
          /\ LoopEffect(c.self, t.key)
          /\ ds_orig' = t.orig
          /\ ds' = t.anon
          /\ out_dir' = SaveAs(out_dir, t.new_filename, index)
          /\ diff_returns' = Append(diff_returns, Returned(c))
          /\ attempts' = Append(attempts,
                Attempt(item, index, "report error", c.self, t.orig, t.anon,
                        t.new_filename, TRUE, TRUE))

\* one loop iteration without exception
FileDone ==
    /\ InLoop
    /\ LET item == file_data[index]
           t == Transformed(item, index)
           c == CompareFilesInternal(t.self, t.orig, t.anon, t.new_filename)
       IN /\ disk[item.path].readable
          /\ disk[item.path].fault = "none"
          /\ ~c.raised
          /\ LoopEffect(c.self, t.key)
          /\ ds_orig' = t.orig
          /\ ds' = t.anon
          /\ out_dir' = SaveAs(out_dir, t.new_filename, index)
          /\ diff_returns' = Append(diff_returns, Returned(c))
          /\ attempts' = Append(attempts,
                Attempt(item, index, "ok", c.self, t.orig, t.anon, t.new_filename,
                        TRUE, TRUE))

\* the loop is over: run returns
RunFinish ==
    /\ pc = "loop"
    /\ index > Len(file_data)
    /\ pc' = "done"
    /\ UNCHANGED <<environ, disk, input_files, rules, remove_private, comparison,
                   uid_next, uid_map, audit_log, pesel_number, batch_study_uid,
                   batch_series_uid, file_data, current_series_key, index, ds_orig, ds,
                   out_dir, attempts, diff_returns>>

Next ==
    \/ RunStart
    \/ RunStartRaises
    \/ FileReadError
    \/ FileTransformError
    \/ FileSaveError
    \/ FileDiffError
    \/ FileReportError
    \/ FileDone
    \/ RunFinish

-----------------------------------------------------------------------------
(* Inputs *)

\* file names
IM_1_1 == <<"I", "M", "-", "1", "-", "1", ".", "d", "c", "m">>
IM_01_2 == <<"I", "M", "-", "0", "1", "-", "2", ".", "d", "c", "m">>
IM_1_3 == <<"I", "M", "-", "1", "-", "3", ".", "d", "c", "m">>
IM_2_1 == <<"I", "M", "-", "2", "-", "1", ".", "d", "c", "m">>
im_1_1 == <<"i", "m", "-", "1", "-", "1", ".", "d", "c", "m">>
scan == <<"s", "c", "a", "n", ".", "d", "c", "m">>
notes == <<"n", "o", "t", "e", "s", ".", "d", "c", "m">>

Names == {IM_1_1, IM_01_2, IM_1_3, IM_2_1, im_1_1, scan, notes}
TreeNames == {IM_1_1, IM_2_1, scan}

\* the lists of at most n distinct names
DistinctLists(names, n) ==
    UNION {{l \in [1..k -> names] : \A i, j \in 1..k : l[i] = l[j] => i = j} : k \in 1..n}

\* os.listdir gives the names of a folder in an arbitrary order: the runs over rich
\* trees take them in this one, which is not the sorted one
ListingOrder == <<IM_2_1, scan, IM_1_1>>

ListedLists(n) ==
    {l \in DistinctLists(TreeNames, n) :
        \E pos \in [1..Len(l) -> 1..Len(ListingOrder)] :
           /\ \A i \in 1..Len(l) : ListingOrder[pos[i]] = l[i]
           /\ \A i, j \in 1..Len(l) : i < j => pos[i] < pos[j]}

\* trees
ItemA ==
    [t \in {"SeriesInstanceUID", "ReferencedSOPInstanceUID", "PatientID"} |->
        CASE t = "SeriesInstanceUID" -> Elem(t, <<"1.2.2">>)
          [] t = "ReferencedSOPInstanceUID" -> Elem(t, <<"1.2.3", "1.2.4">>)
          [] t = "PatientID" -> Elem(t, <<"P1">>)]

\* an image with the usual attributes and a sequence the dictionary knows
TreeA ==
    [t \in {"SOPInstanceUID", "StudyDate", "InstitutionName", "ReferencedSeriesSequence",
            "PatientName", "PatientID", "StudyInstanceUID", "SeriesInstanceUID"} |->
        CASE t = "SOPInstanceUID" -> Elem(t, <<"1.2.3">>)
          [] t = "StudyDate" -> Elem(t, <<"20200101">>)
          [] t = "InstitutionName" -> Elem(t, <<"ANONYMIZED">>)
          [] t = "ReferencedSeriesSequence" -> SeqElem(t, <<ItemA>>)
          [] t = "PatientName" -> Elem(t, <<"Doe^John">>)
          [] t = "PatientID" -> Elem(t, <<"P1">>)
          [] t = "StudyInstanceUID" -> Elem(t, <<"1.2.1">>)
          [] t = "SeriesInstanceUID" -> Elem(t, <<"1.2.2">>)]

ItemB ==
    [t \in {"StudyInstanceUID", "PatientID"} |->
        CASE t = "StudyInstanceUID" -> Elem(t, <<"1.2.1">>)
          [] t = "PatientID" -> Elem(t, <<"P1">>)]

\* an image without PatientID, with sequences that have no keyword
TreeB ==
    [t \in {"SOPInstanceUID", "StudyDate", "(0008,9999)", "(0009,1001)",
            "StudyInstanceUID", "InstanceNumber"} |->
        CASE t = "SOPInstanceUID" -> Elem(t, <<"1.2.3">>)
          [] t = "StudyDate" -> Elem(t, <<Today>>)
          [] t = "(0008,9999)" -> NoKeywordSeq(<<ItemB>>, FALSE)
          [] t = "(0009,1001)" -> NoKeywordSeq(<<ItemB>>, TRUE)
          [] t = "StudyInstanceUID" -> Elem(t, <<"1.2.1">>)
          [] t = "InstanceNumber" -> Elem(t, <<"1">>)]

\* an image whose PatientID is empty
TreeC ==
    [t \in {"SOPInstanceUID", "PatientID", "SeriesInstanceUID", "InstanceNumber"} |->
        CASE t = "SOPInstanceUID" -> Elem(t, <<"1.2.4">>)
          [] t = "PatientID" -> Elem(t, <<>>)
          [] t = "SeriesInstanceUID" -> Elem(t, <<"1.2.2">>)
          [] t = "InstanceNumber" -> Elem(t, <<"0">>)]

Trees == {TreeA, TreeB, TreeC}

\* what a file of the input directory is: readable or not, its tree, whether
\* remove_private_tags raises on it, and the step of the loop body that raises on it
File(readable, tree, strip_raises, fault) ==
    [readable |-> readable, tree |-> tree, strip_raises |-> strip_raises, fault |-> fault]

Faults == {"transform", "save", "diff", "report"}

Unreadable == File(FALSE, <<>>, FALSE, "none")

TreeFiles ==
    {File(TRUE, t, FALSE, "none") : t \in Trees}
      \cup {File(TRUE, TreeB, TRUE, "none"), Unreadable}
      \cup {File(TRUE, TreeA, FALSE, f) : f \in Faults}

\* the sequencing runs give every name one way to fail, so that every subset of
\* the input can fail and every step of the loop body raises on some file
FailureOf(name) ==
    CASE name \in {IM_1_1, scan} -> Unreadable
      [] name \in {IM_1_3, notes} -> File(TRUE, TreeC, FALSE, "transform")
      [] name = IM_01_2 -> File(TRUE, TreeC, FALSE, "save")
      [] name = IM_2_1 -> File(TRUE, TreeC, FALSE, "diff")
      [] name = im_1_1 -> File(TRUE, TreeC, FALSE, "report")

NameFiles(name) == {File(TRUE, TreeC, FALSE, "none"), FailureOf(name)}

\* profiles: one action for every keyword that is no sequence, and the sequence of
\* the dictionary ruled "X", ruled like the rest, or not ruled
ScalarKeywords ==
    {"SOPInstanceUID", "StudyDate", "SeriesDate", "ContentDate", "InstitutionName",
     "ReferencedSOPInstanceUID", "PatientName", "PatientID", "StudyInstanceUID",
     "SeriesInstanceUID", "InstanceNumber"}

Actions == {"X", "Z", "D", "U"}

UniformProfile(a, seq) ==
    [k \in ScalarKeywords \cup (IF seq = "" THEN {} ELSE {"ReferencedSeriesSequence"}) |->
        IF k = "ReferencedSeriesSequence" THEN seq ELSE a]

EmptyProfile == [k \in {} |-> "X"]

Profiles ==
    {UniformProfile(a, "") : a \in Actions}
      \cup {UniformProfile("X", "X"), UniformProfile("U", "X"), EmptyProfile}

\* process environment, constructor arguments, command line and generator entropy
Config(env, rp, cmp, seed) ==
    [environ |-> env, remove_private |-> rp, comparison |-> cmp, seed |-> seed]

EnvPepper == [v \in {"PEPPER"} |-> "s3cret"]
EnvEmpty == [v \in {} |-> ""]

Configs ==
    {Config(EnvPepper, TRUE, FALSE, 1),
     Config(EnvPepper, FALSE, TRUE, 5),
     Config(EnvEmpty, TRUE, FALSE, 1)}

\* the state after AnonymDICOM.__init__ for the given inputs
Constructed(cfg, files, content, profile, orig, anon) ==
    /\ environ = cfg.environ
    /\ remove_private = cfg.remove_private
    /\ comparison = cfg.comparison
    /\ input_files = files
    /\ disk = content
    /\ rules = profile
    /\ uid_map = [k \in {} |-> ""]
    /\ audit_log = <<>>
    /\ pesel_number = ""
    /\ batch_study_uid = GenerateUid(cfg.seed)
    /\ uid_next = cfg.seed + 1
    /\ batch_series_uid = None
    /\ file_data = <<>>
    /\ current_series_key = NoKey
    /\ index = 1
    /\ ds_orig = orig
    /\ ds = anon
    /\ out_dir = [n \in {} |-> 0]
    /\ attempts = <<>>
    /\ diff_returns = <<>>

\* runs over rich trees and every profile
Init ==
    /\ pc = "start"
    /\ \E cfg \in Configs, files \in ListedLists(MaxTreeFiles),
          profile \in Profiles :
         \E content \in [{files[i] : i \in 1..Len(files)} -> TreeFiles] :
            Constructed(cfg, files, content, profile, <<>>, <<>>)

Spec == Init /\ [][Next]_vars

\* runs over rich file names
InitNames ==
    /\ pc = "start"
    /\ \E cfg \in {Config(EnvPepper, TRUE, c, 1) : c \in BOOLEAN},
          files \in DistinctLists(Names, MaxFiles) :
         \E content \in [{files[i] : i \in 1..Len(files)} ->
                             UNION {NameFiles(n) : n \in Names}] :
            /\ \A n \in DOMAIN content : content[n] \in NameFiles(n)
            /\ Constructed(cfg, files, content, UniformProfile("Z", ""), <<>>, <<>>)

SpecNames == InitNames /\ [][Next]_vars

-----------------------------------------------------------------------------
(* Loading the profile, and the HTTP engine AnonymizerEngine.  The engine is *)
(* a record [rules, pepper, uid_map, uid_next].                              *)

\* the profile file: whether open() succeeds, whether json.load parses it, and what
\* json.load makes of it
ProfileFile(readable, parses, json) ==
    [readable |-> readable, parses |-> parses, json |-> json]

\* the name the profile file has in disk
ProfilePath == <<"p", "r", "o", "f", "i", "l", "e", ".", "j", "s", "o", "n">>

\* with open(path) as f: json.load(f)  raises
LoadRaises(file) == ~file.readable \/ ~file.parses

\* AnonymDICOM._load_profile, where it returns: the rules are the parsed file, as it is
LoadProfile(file) == file.json

\* AnonymizerEngine._load_rules: any exception gives the empty profile
LoadRules(file) == IF LoadRaises(file) THEN [k \in {} |-> ""] ELSE file.json

\* AnonymizerEngine.__init__: self.pepper
EnginePepper == Getenv(environ, "PEPPER", "default_secret_pepper")

\* AnonymizerEngine._generate_consistent_uid
EngineGenerateConsistentUid(engine, original_uid) ==
    LET r == GenerateConsistentUid(engine, original_uid)
    IN [engine |-> r.self, uid |-> r.uid]

\* [self._generate_consistent_uid(u) for u in elem.value]
EngineConsistentUidList(engine, val) ==
    LET r == ConsistentUidList(engine, val)
    IN [engine |-> r.self, val |-> r.val]

\* AnonymizerEngine._get_replacement_value
EngineGetReplacementValue(engine, vr, action) ==
    LET r == GetReplacementValue(engine, vr, action)
    IN [engine |-> r.self, value |-> r.value]

\* anonymize_dataset, step 2: the body of  for elem in list(ds)  for the elements left
RECURSIVE EngineElems(_, _, _)
EngineElems(engine, dataset, tags) ==
    IF tags = <<>> THEN [engine |-> engine, ds |-> dataset]
    ELSE
      LET t == Head(tags)
          elem == dataset[t]
          keyword == elem.kw
          rest == Tail(tags)
      IN
      IF keyword = "" \/ keyword \notin DOMAIN engine.rules
      THEN EngineElems(engine, dataset, rest)
      ELSE LET action == engine.rules[keyword]
           IN IF action = "X"
              THEN EngineElems(engine, DelTag(dataset, t), rest)
              ELSE IF action = "U"
              THEN IF elem.val # <<>>
                   THEN IF Len(elem.val) > 1
                        THEN LET r == EngineConsistentUidList(engine, elem.val)
                             IN EngineElems(r.engine, [dataset EXCEPT ![t].val = r.val], rest)
                        ELSE LET r == EngineGenerateConsistentUid(engine, elem.val[1])
                             IN EngineElems(r.engine,
                                            [dataset EXCEPT ![t].val = ValueOf(r.uid)], rest)
                   ELSE EngineElems(engine, dataset, rest)
              ELSE IF action \in {"Z", "D"}
              THEN LET r == EngineGetReplacementValue(engine, elem.vr, action)
                   IN EngineElems(r.engine, [dataset EXCEPT ![t].val = ValueOf(r.value)],
                                  rest)
              ELSE EngineElems(engine, dataset, rest)

\* AnonymizerEngine.anonymize_dataset
AnonymizeDataset(engine, dataset) ==
    LET stripped == RemovePrivateTags(dataset)
        r == EngineElems(engine, stripped, TagsOf(stripped))
        orig_patient_id == GetStr(r.ds, "PatientID", "UNKNOWN")
        hashed_id == Sha256Hex(orig_patient_id \o engine.pepper)
        d1 == SetAttr(r.ds, "PatientID", ValueOf(hashed_id))
        d2 == SetAttr(d1, "PatientName", ValueOf(Prefix8(hashed_id) \o "^Anonym"))
    IN [engine |-> r.engine,
        ds |-> SetAttr(d2, "PatientIdentityRemoved", ValueOf("YES"))]

\* the global instance  engine = AnonymizerEngine()
Engine == [rules |-> rules, pepper |-> EnginePepper, uid_map |-> uid_map,
           uid_next |-> uid_next]

-----------------------------------------------------------------------------
(* The diff applied repeatedly to one pair of trees *)

\* the object AnonymDICOM.__init__ builds
NewObject(cfg, profile) ==
    [rules |-> profile, remove_private |-> cfg.remove_private,
     batch_study_uid |-> GenerateUid(cfg.seed), batch_series_uid |-> None,
     uid_map |-> [k \in {} |-> ""], uid_next |-> cfg.seed + 1,
     pesel_number |-> "", audit_log |-> <<>>]

\* the tree the loop body of run makes of a tree read as the first file IM-1-1.dcm
PipelineOutput(cfg, profile, tree) ==
    LET s1 == AfterSeriesLogic(NewObject(cfg, profile), NoKey, FileDataEntry(IM_1_1))
        s2 == [s1.self EXCEPT !.pesel_number = GetStr(tree, "PatientID", "")]
        r == ProcessDataset(s2, tree, FALSE)
    IN FinalizeMetadata(r.self, r.ds, 1)

DiffConfig == Config(EnvPepper, TRUE, FALSE, 1)

\* a pair (original, anonymized): the anonymized side is what run makes of the
\* original, or any other tree
InitDiff ==
    /\ pc = "diff"
    /\ environ = DiffConfig.environ
    /\ \E profile \in Profiles, orig \in Trees :
         \E anon \in Trees \cup {PipelineOutput(DiffConfig, profile, orig)} :
            Constructed(DiffConfig, <<IM_1_1>>, [n \in {} |-> Unreadable], profile,
                        orig, anon)

DiffFilename == NewFilename(FileDataEntry(IM_1_1), 1)

\* one call of _compare_files_internal on the pair that returns
DiffCall ==
    /\ pc = "diff"
    /\ Len(diff_returns) < MaxDiffCalls
    /\ LET c == CompareFilesInternal(Self, ds_orig, ds, DiffFilename)
       IN /\ ~c.raised
          /\ diff_returns' = Append(diff_returns, Returned(c))
          /\ audit_log' = c.self.audit_log
          /\ uid_map' = c.self.uid_map
          /\ uid_next' = c.self.uid_next
          /\ rules' = c.self.rules
    /\ UNCHANGED <<environ, disk, input_files, remove_private, comparison, pesel_number,
                   batch_study_uid, batch_series_uid, file_data, current_series_key,
                   index, ds_orig, ds, out_dir, attempts, pc>>

\* one call of _compare_files_internal on the pair that raises
DiffCallRaises ==
    /\ pc = "diff"
    /\ Len(diff_returns) < MaxDiffCalls
    /\ LET c == CompareFilesInternal(Self, ds_orig, ds, DiffFilename)
       IN /\ c.raised
          /\ diff_returns' = Append(diff_returns, Returned(c))
          /\ audit_log' = c.self.audit_log
          /\ uid_map' = c.self.uid_map
          /\ uid_next' = c.self.uid_next
          /\ rules' = c.self.rules
    /\ UNCHANGED <<environ, disk, input_files, remove_private, comparison, pesel_number,
                   batch_study_uid, batch_series_uid, file_data, current_series_key,
                   index, ds_orig, ds, out_dir, attempts, pc>>

NextDiff == DiffCall \/ DiffCallRaises

SpecDiff == InitDiff /\ [][NextDiff]_vars

-----------------------------------------------------------------------------
(* The two programs from their start: the command line tool loads its      *)
(* profile and runs; the HTTP engine loads its profile and serves datasets *)

\* a profile with an action code the transformer does not know
UnknownCodeProfile == UniformProfile("K", "")

ProfileFiles ==
    {ProfileFile(FALSE, FALSE, EmptyProfile), ProfileFile(TRUE, FALSE, EmptyProfile)}
      \cup {ProfileFile(TRUE, TRUE, p) :
               p \in {UnknownCodeProfile} \cup {UniformProfile(a, "") : a \in Actions}}

\* disk with the profile file in it
WithProfile(content, file) ==
    [n \in DOMAIN content \cup {ProfilePath} |->
        IF n = ProfilePath THEN file ELSE content[n]]

\* the command line tool with one input file, or the HTTP engine, before the
\* profile is loaded
InitPrograms ==
    \E cfg \in Configs, file \in ProfileFiles :
       \/ /\ pc = "new"
          /\ \E files \in ListedLists(1) :
               \E content \in [{files[i] : i \in 1..Len(files)} -> TreeFiles] :
                  Constructed(cfg, files, WithProfile(content, file), EmptyProfile,
                              <<>>, <<>>)
       \/ /\ pc = "engine new"
          /\ Constructed(cfg, <<>>, WithProfile([n \in {} |-> Unreadable], file),
                         EmptyProfile, <<>>, <<>>)

\* AnonymDICOM.__init__ where _load_profile returns
Construct ==
    /\ pc = "new"
    /\ ~LoadRaises(disk[ProfilePath])
    /\ rules' = LoadProfile(disk[ProfilePath])
    /\ pc' = "start"
    /\ UNCHANGED <<environ, disk, input_files, remove_private, comparison, uid_next,
                   uid_map, audit_log, pesel_number, batch_study_uid, batch_series_uid,
                   file_data, current_series_key, index, ds_orig, ds, out_dir, attempts,
                   diff_returns>>

\* AnonymDICOM.__init__ where _load_profile raises: there is no object and no run
ConstructRaises ==
    /\ pc = "new"
    /\ LoadRaises(disk[ProfilePath])
    /\ pc' = "aborted"
    /\ UNCHANGED <<environ, disk, input_files, rules, remove_private, comparison,
                   uid_next, uid_map, audit_log, pesel_number, batch_study_uid,
                   batch_series_uid, file_data, current_series_key, index, ds_orig, ds,
                   out_dir, attempts, diff_returns>>

\* AnonymizerEngine.__init__ where the profile file loads
EngineConstruct ==
    /\ pc = "engine new"
    /\ ~LoadRaises(disk[ProfilePath])
    /\ rules' = LoadRules(disk[ProfilePath])
    /\ pc' = "engine"
    /\ UNCHANGED <<environ, disk, input_files, remove_private, comparison, uid_next,
                   uid_map, audit_log, pesel_number, batch_study_uid, batch_series_uid,
                   file_data, current_series_key, index, ds_orig, ds, out_dir, attempts,
                   diff_returns>>

\* AnonymizerEngine.__init__ where the profile file does not load: a warning is
\* printed and the engine serves with the empty profile
EngineConstructNoProfile ==
    /\ pc = "engine new"
    /\ LoadRaises(disk[ProfilePath])
    /\ rules' = LoadRules(disk[ProfilePath])
    /\ pc' = "engine"
    /\ UNCHANGED <<environ, disk, input_files, remove_private, comparison, uid_next,
                   uid_map, audit_log, pesel_number, batch_study_uid, batch_series_uid,
                   file_data, current_series_key, index, ds_orig, ds, out_dir, attempts,
                   diff_returns>>

\* the record of one dataset the engine served (history)
Served(idx, orig, anon) ==
    [path |-> <<>>, index |-> idx, outcome |-> "served", series_str |-> <<>>,
     series_uid |-> None, pesel |-> GetStr(orig, "PatientID", ""), orig |-> orig,
     anon |-> anon, new_filename |-> <<>>, written |-> TRUE, audited |-> FALSE]

\* an endpoint reads a dataset from the PACS and hands it to engine.anonymize_dataset;
\* the result is saved into the response
EngineAnonymize ==
    /\ pc = "engine"
    /\ Len(attempts) < MaxRequests
    /\ \E tree \in Trees :
         LET r == AnonymizeDataset(Engine, tree)
         IN /\ ds_orig' = tree
            /\ ds' = r.ds
            /\ uid_map' = r.engine.uid_map
            /\ uid_next' = r.engine.uid_next
            /\ rules' = r.engine.rules
            /\ attempts' = Append(attempts, Served(Len(attempts) + 1, tree, r.ds))
    /\ UNCHANGED <<environ, disk, input_files, remove_private, comparison, audit_log,
                   pesel_number, batch_study_uid, batch_series_uid, file_data,
                   current_series_key, index, out_dir, diff_returns, pc>>

NextPrograms ==
    \/ Construct
    \/ ConstructRaises
    \/ EngineConstruct
    \/ EngineConstructNoProfile
    \/ EngineAnonymize
    \/ Next

SpecPrograms == InitPrograms /\ [][NextPrograms]_vars

-----------------------------------------------------------------------------
(* Vocabulary of the properties *)

Min(a, b) == IF a <= b THEN a ELSE b

\* every element of a tree, at any depth
RECURSIVE AllElems(_)
AllElems(d) ==
    UNION {{d[t]} \cup UNION {AllElems(d[t].items[i]) : i \in 1..Len(d[t].items)} :
           t \in DOMAIN d}

\* every element of the original tree, at any depth, with the element at the same
\* place of the anonymized tree: its path as the diff writes it, whether it is at
\* the root, the original value o, and present / the value a on the anonymized side
RECURSIVE Fields(_, _, _)
Fields(orig, anon, path) ==
    UNION {
      LET e == orig[t]
          present == t \in DOMAIN anon
          here == IF path # "ROOT" THEN path \o "." \o e.kw ELSE e.kw
      IN {[kw |-> e.kw, vr |-> e.vr, path |-> here, root |-> (path = "ROOT"),
           o |-> e.val, present |-> present,
           a |-> IF present THEN anon[t].val ELSE <<>>]}
         \cup
         (IF present
          THEN UNION {Fields(e.items[i], anon[t].items[i],
                             here \o "[" \o ToString(i - 1) \o "]") :
                      i \in 1..Min(Len(e.items), Len(anon[t].items))}
          ELSE {})
      : t \in DOMAIN orig}

\* the loop iterations that wrote an output file
WrittenAttempts == {i \in 1..Len(attempts) : attempts[i].written}

\* the loop iterations that ended without exception
OkAttempts == {i \in 1..Len(attempts) : attempts[i].outcome = "ok"}

\* the audit records of the run for a field of a file
RecordsOf(filename, path) ==
    {i \in 1..Len(audit_log) : audit_log[i].File = filename /\ audit_log[i].Tag = path}

\* the identifiers generate_uid has drawn so far
Generated == {GenerateUid(n) : n \in 0..(uid_next - 1)}

\* the value _get_replacement_value documents for action Z
IsVRDefault(vr, val) ==
    IF vr = "UI" THEN Len(val) = 1 /\ val[1] \in Generated
    ELSE val = ValueOf(StaticDefault(vr))

-----------------------------------------------------------------------------
(* C1 *)

\* C1: in every written file, no field at any depth whose keyword the profile maps
\* to Remove ("X") is left with a non-empty value, for every profile.
C1_RemovedNeverLeft ==
    \A i \in WrittenAttempts :
       \A e \in AllElems(attempts[i].anon) :
          (e.kw # "" /\ Ruled(Self, e.kw, "X")) => (e.val = <<>> /\ e.items = <<>>)

-----------------------------------------------------------------------------
(* C2 *)

\* the (original, replacement) pairs of the values of the fields ruled "U"
RemapPairs ==
    UNION {UNION {{<<f.o[j], f.a[j]>> : j \in 1..Min(Len(f.o), Len(f.a))} :
                  f \in {g \in Fields(attempts[i].orig, attempts[i].anon, "ROOT") :
                            g.vr # "SQ" /\ g.kw # "" /\ Ruled(Self, g.kw, "U")}} :
           i \in WrittenAttempts}

\* C2: within one run, equal original values of fields ruled Consistent-Remap ("U")
\* have equal replacements, in one file and across files, at any depth, and every
\* replacement differs from its original.
C2_ConsistentRemap ==
    \A p, q \in RemapPairs :
       /\ p[1] = q[1] => p[2] = q[2]
       /\ p[2] # p[1]

-----------------------------------------------------------------------------
(* C3 *)

\* the series-scope identifier a written file carries
SeriesUidOf(i) ==
    IF "SeriesInstanceUID" \in DOMAIN attempts[i].anon
    THEN attempts[i].anon["SeriesInstanceUID"].val
    ELSE <<>>

\* C3: two successfully processed files carry the same series-scope identifier if
\* and only if they have the same detected group key (the text of the series number).
C3_SeriesUidIffGroupKey ==
    \A i, j \in OkAttempts :
       (SeriesUidOf(i) = SeriesUidOf(j)) <=> (attempts[i].series_str = attempts[j].series_str)

-----------------------------------------------------------------------------
(* C4 *)

\* C4: the batch-wide identifier batch_study_uid is one identifier of the generator,
\* the UID registry never gives it out, and every StudyInstanceUID field left in a
\* written tree, at any depth, holds it, whatever the profile says about it.
C4_StudyUidForcedEverywhere ==
    /\ batch_study_uid \in Generated
    /\ \A k \in DOMAIN uid_map : uid_map[k] # batch_study_uid
    /\ \A i \in WrittenAttempts :
          \A e \in AllElems(attempts[i].anon) :
             e.kw = "StudyInstanceUID" => e.val = <<batch_study_uid>>

-----------------------------------------------------------------------------
(* C5 *)

\* the PatientID a file held when it was read, as str() gives it ("" when absent)
OriginalPatientId(i) == GetStr(attempts[i].orig, "PatientID", "")

\* C5: the PatientID of every written file is the digest of the PatientID the file
\* held before any rule was applied, followed by the pepper; it depends on nothing
\* else: not on the profile, not on the files processed before, not on the
\* identifiers the generator draws in this run.
C5_PatientIdIsHashOfOriginal ==
    \A i \in WrittenAttempts :
       /\ "PatientID" \in DOMAIN attempts[i].anon
       /\ attempts[i].anon["PatientID"].val
            = <<Sha256Hex(OriginalPatientId(i) \o SECRET_PEPPER)>>

\* C5 witness: the second file of a run, under a profile that remaps PatientID and
\* has filled the registry, is written with the digest of its original PatientID
C5_Witness ==
    \E i \in WrittenAttempts :
       /\ attempts[i].index = 2
       /\ Ruled(Self, "PatientID", "U")
       /\ OriginalPatientId(i) = "P1"
       /\ "P1" \in DOMAIN uid_map
       /\ attempts[i].anon["PatientID"].val = <<Sha256Hex("P1" \o SECRET_PEPPER)>>

-----------------------------------------------------------------------------
(* C6 *)

\* C6: an empty or absent original PatientID gives the empty string as identity
\* hash, in the PatientID _finalize_metadata writes and in hash_patient_id.
C6_EmptyIdEmptyHash ==
    /\ HashPatientId("") = ""
    /\ \A i \in WrittenAttempts :
          OriginalPatientId(i) = "" => Str(attempts[i].anon["PatientID"].val) = ""

-----------------------------------------------------------------------------
(* C7 *)

\* C7: every field that is no sequence, is ruled ReplaceDefault ("Z") and had a
\* non-empty value is written with the default of its VR, which differs from the
\* original value, whatever the original value was.
C7_ReplacedByDefault ==
    \A i \in WrittenAttempts :
       \A f \in Fields(attempts[i].orig, attempts[i].anon, "ROOT") :
          (f.vr # "SQ" /\ f.kw # "" /\ Ruled(Self, f.kw, "Z") /\ f.o # <<>>)
             => /\ f.present
                /\ f.a # f.o
                /\ IsVRDefault(f.vr, f.a)

-----------------------------------------------------------------------------
(* C8 *)

\* C8: every field that is no sequence, is ruled Clear ("D") and had a non-empty
\* value is empty in the output and its audit record is a pass with anonymized
\* value ""; the diff reports "FAIL (Not Empty)" exactly when the anonymized value
\* is not empty.  For every field name.
C8_ClearedAndAuditedPass ==
    \A i \in {j \in WrittenAttempts : attempts[j].audited} :
       \A f \in Fields(attempts[i].orig, attempts[i].anon, "ROOT") :
          (f.vr # "SQ" /\ f.kw # "" /\ Ruled(Self, f.kw, "D") /\ f.o # <<>>)
             => /\ f.present
                /\ f.a = <<>>
                /\ RecordsOf(attempts[i].new_filename, f.path) # {}
                /\ \A r \in RecordsOf(attempts[i].new_filename, f.path) :
                      /\ audit_log[r].Status = "OK"
                      /\ audit_log[r].Anonymized = ""
                      /\ (audit_log[r].Status = "FAIL (Not Empty)") <=> (f.a # <<>>)

-----------------------------------------------------------------------------
(* C9 *)

\* C9: every call of the diff on the same pair, under the same file name, returns
\* the same ordered list of audit records (or raises alike), and no call changes
\* the two trees, the profile or the UID registry.
C9_DiffRepeatable ==
    /\ [](\A i, j \in 1..Len(diff_returns) : diff_returns[i] = diff_returns[j])
    /\ [][/\ ds_orig' = ds_orig
          /\ ds' = ds
          /\ rules' = rules
          /\ uid_map' = uid_map
          /\ uid_next' = uid_next]_vars

\* C9 witness: the diff returned twice on a pair, with records among them a failure,
\* and the run-wide log holds both copies
C9_Witness ==
    /\ pc = "diff"
    /\ Len(diff_returns) = 2
    /\ ~diff_returns[1].raised
    /\ diff_returns[1].fails > 0
    /\ diff_returns[2].diffs = diff_returns[1].diffs
    /\ audit_log = diff_returns[1].diffs \o diff_returns[2].diffs

-----------------------------------------------------------------------------
(* C10 *)

\* the paths of a list of records
Paths(l) == [i \in 1..Len(l) |-> l[i].path]

\* C10: whatever files fail, run never ends in an exception, and when it ends every
\* file of the sorted list was attempted exactly once, in sorted order.
C10_BatchNeverAborted ==
    /\ pc # "aborted"
    /\ Paths(attempts) = SubSeq(Paths(file_data), 1, Len(attempts))
    /\ pc \in {"done", "aborted"} => Paths(attempts) = Paths(BuildFileData(input_files))

-----------------------------------------------------------------------------
(* C11 *)

\* the tree of loop iteration i went through the whole of _process_dataset_recursive
\* and _finalize_metadata: it carries what their last statements write
CompletelyProcessed(i) ==
    LET a == attempts[i].anon
    IN /\ {"PatientID", "PatientName", "StudyDate", "SeriesDate", "ContentDate",
           "InstanceNumber", "PatientIdentityRemoved", "DeidentificationMethod"}
             \subseteq DOMAIN a
       /\ a["PatientIdentityRemoved"].val = ValueOf("YES")
       /\ a["DeidentificationMethod"].val = ValueOf("DICOM PS3.15 Basic Profile + SHA256")
       /\ a["InstanceNumber"].val = ValueOf(ToString(attempts[i].index))
       /\ a["PatientID"].val = ValueOf(GenerateHashedId(attempts[i].pesel))
       /\ "StudyInstanceUID" \in DOMAIN a
             => a["StudyInstanceUID"].val = ValueOf(batch_study_uid)
       /\ \A t \in DOMAIN a : a[t].private => ~remove_private \/ disk[attempts[i].path].strip_raises

\* C11: a file whose transform or finalization raised has no output file, and every
\* output file was written by a loop iteration whose tree is completely transformed
\* and finalized.
C11_NoPartialOutput ==
    /\ \A i \in 1..Len(attempts) :
          attempts[i].outcome = "transform error"
             => /\ ~attempts[i].written
                /\ \A n \in DOMAIN out_dir : out_dir[n] # attempts[i].index
    /\ \A n \in DOMAIN out_dir :
          \E i \in WrittenAttempts :
             /\ attempts[i].index = out_dir[n]
             /\ attempts[i].new_filename = n
             /\ attempts[i].outcome \in {"ok", "report error", "diff error"}
             /\ CompletelyProcessed(i)

\* C11 witness: the run is over; one file raised in the middle of the walk, its tree
\* changed in memory, and it has no output file, while another file was written
C11_Witness ==
    /\ pc = "done"
    /\ out_dir # <<>>
    /\ \E i \in 1..Len(attempts) :
          /\ attempts[i].outcome = "transform error"
          /\ attempts[i].anon # attempts[i].orig
          /\ \A n \in DOMAIN out_dir : out_dir[n] # attempts[i].index

-----------------------------------------------------------------------------
(* C12 *)

\* the loop iterations and served datasets whose tree was given a hashed PatientID
HashedAttempts ==
    {i \in 1..Len(attempts) :
        /\ attempts[i].anon # attempts[i].orig
        /\ "PatientIdentityRemoved" \in DOMAIN attempts[i].anon}

\* C12: when the environment configures no pepper, the program stops at startup:
\* it never hashes a patient identifier (with a built-in default pepper), never
\* writes an output file and never completes a run.
C12_NoPepperNoHash ==
    "PEPPER" \notin DOMAIN environ
       => /\ HashedAttempts = {}
          /\ WrittenAttempts = {}
          /\ out_dir = <<>>
          /\ pc # "done"

-----------------------------------------------------------------------------
(* C13 *)

\* the profile file is unreadable, malformed, or maps a field to an action code
\* outside X, Z, D, U
BadProfile(file) ==
    \/ LoadRaises(file)
    \/ \E k \in DOMAIN file.json : file.json[k] \notin Actions

\* a field of loop iteration i that an unknown action code rules, left with its
\* original value in the written file while its audit record says pass
UntouchedAndPassed(i) ==
    \E f \in Fields(attempts[i].orig, attempts[i].anon, "ROOT") :
       /\ f.kw \in DOMAIN rules
       /\ rules[f.kw] \notin Actions
       /\ f.o # <<>>
       /\ f.present /\ f.a = f.o
       /\ \E r \in RecordsOf(attempts[i].new_filename, f.path) :
             audit_log[r].Status = "OK"

\* C13: with a profile file that is unreadable, malformed or holds an unknown action
\* code, loading fails and no dataset is transformed: none is hashed, none is
\* written, and no field under an unknown code is written untouched with a passing
\* audit record.  For the command line tool and for the HTTP engine.
C13_BadProfileNothingTransformed ==
    (ProfilePath \in DOMAIN disk /\ BadProfile(disk[ProfilePath]))
       => /\ HashedAttempts = {}
          /\ out_dir = <<>>
          /\ \A i \in WrittenAttempts : ~UntouchedAndPassed(i)

\* C13 witness: a run under a profile with an unknown action code is over; a field
\* the code rules was written untouched and its audit record says pass
C13_Witness ==
    /\ pc = "done"
    /\ BadProfile(disk[ProfilePath])
    /\ \E i \in WrittenAttempts : attempts[i].audited /\ UntouchedAndPassed(i)

-----------------------------------------------------------------------------
(* C14 *)

\* a file name matches IM-<series>-<image>.dcm; the numbers it carries
Matched(f) == PatternSearch(f).match
SeriesNo(f) == PyInt(PatternSearch(f).s_str)
ImageNo(f) == PyInt(PatternSearch(f).i_str)

\* f must come before g: a matched file before an unmatched one, and matched files
\* in ascending order of (series number, image number)
Before(f, g) ==
    /\ Matched(f)
    /\ \/ ~Matched(g)
       \/ SeriesNo(f) < SeriesNo(g)
       \/ SeriesNo(f) = SeriesNo(g) /\ ImageNo(f) < ImageNo(g)

\* the place of a name in a list of distinct names
PosIn(l, x) == CHOOSE i \in 1..Len(l) : l[i] = x

\* C14: the processing order is a permutation of the input list, ascending by
\* (numeric series, numeric image) with every unmatched file after every matched
\* one, and files with equal keys (unmatched files among them) keep their
\* encounter order.
C14_SortedStablePermutation ==
    pc \in {"loop", "done", "aborted"} =>
       LET order == Paths(file_data)
       IN /\ Len(order) = Len(input_files)
          /\ {order[i] : i \in 1..Len(order)} = {input_files[i] : i \in 1..Len(input_files)}
          /\ \A i, j \in 1..Len(order) :
                i < j => /\ ~Before(order[j], order[i])
                         /\ ~Before(order[i], order[j])
                               => PosIn(input_files, order[i]) < PosIn(input_files, order[j])

\* C14 witness: an unmatched file listed first is processed last, after two
\* matched files with equal numeric keys that keep their encounter order
C14_Witness ==
    /\ pc = "loop"
    /\ input_files = <<scan, im_1_1, IM_1_1>>
    /\ Paths(file_data) = <<im_1_1, IM_1_1, scan>>

-----------------------------------------------------------------------------
(* C15 *)

\* the pair of trees has a scalar field the profile rules, with a keyword, present
\* in the original and absent from the anonymized tree
MissingRuledField ==
    \E f \in Fields(ds_orig, ds, "ROOT") :
       f.kw # "" /\ f.vr # "SQ" /\ f.kw \in DOMAIN rules /\ ~f.present

\* C15: the diff never raises; on a pair with a ruled scalar field missing on the
\* anonymized side it returns its list of audit records, whatever the action.
C15_DiffNeverRaises ==
    \A i \in 1..Len(diff_returns) : ~diff_returns[i].raised

\* C15 witness: the diff raised on a pair whose anonymized side lacks a ruled field
C15_Witness ==
    /\ pc = "diff"
    /\ MissingRuledField
    /\ Len(diff_returns) > 0
    /\ diff_returns[1].raised

-----------------------------------------------------------------------------
(* C16 *)

\* the lists _compare_files_internal returned so far, one after the other
RECURSIVE ReturnedRecords(_)
ReturnedRecords(returns) ==
    IF returns = <<>> THEN <<>>
    ELSE ReturnedRecords(SubSeq(returns, 1, Len(returns) - 1))
           \o returns[Len(returns)].diffs

\* C16: audit_log is the lists the diff returned, in the order of the files, each
\* record as it was appended (append-only, nothing changed or removed); every
\* written file has its audit records in the log; a file that failed has none; a
\* file succeeded exactly when its output and its audit records exist.
C16_AuditLogAppendOnlyComplete ==
    /\ audit_log = ReturnedRecords(diff_returns)
    /\ \A i \in 1..Len(attempts) :
          /\ attempts[i].written => attempts[i].audited
          /\ attempts[i].outcome # "ok" => ~attempts[i].audited
          /\ attempts[i].outcome = "ok" <=> (attempts[i].written /\ attempts[i].audited)

\* C16 witness: a run is over in which a file was written and failed afterwards
C16_Witness ==
    /\ pc = "done"
    /\ \E i \in 1..Len(attempts) :
          /\ attempts[i].written
          /\ attempts[i].outcome # "ok"
          /\ attempts[i].new_filename \in DOMAIN out_dir

-----------------------------------------------------------------------------
(* C17 *)

\* the datasets the HTTP engine served
ServedAttempts == {i \in 1..Len(attempts) : attempts[i].outcome = "served"}

\* the PatientID AnonymDICOM.run writes for the tree under the profile and pepper of
\* the engine
CliPatientId(tree) ==
    PipelineOutput(Config(environ, remove_private, comparison, 1), rules,
                   tree)["PatientID"].val

\* C17: the PatientID of every dataset the HTTP engine serves is the digest of the
\* PatientID the dataset held before any rule was applied, followed by the pepper,
\* whatever the profile does to PatientID; with a pepper configured it is the
\* PatientID AnonymDICOM writes for the same dataset and profile.
C17_EngineHashesOriginalId ==
    \A i \in ServedAttempts :
       /\ attempts[i].anon["PatientID"].val
            = <<Sha256Hex(OriginalPatientId(i) \o EnginePepper)>>
       /\ "PEPPER" \in DOMAIN environ
             => attempts[i].anon["PatientID"].val = CliPatientId(attempts[i].orig)

\* C17 witness: under a profile that rules PatientID "Z", the engine served a
\* dataset that held PatientID "P1" with the digest of the replacement value
C17_Witness ==
    /\ pc = "engine"
    /\ Ruled(Engine, "PatientID", "Z")
    /\ "PEPPER" \in DOMAIN environ
    /\ \E i \in ServedAttempts :
          /\ OriginalPatientId(i) = "P1"
          /\ attempts[i].anon["PatientID"].val
               = <<Sha256Hex("ANONYMIZED" \o EnginePepper)>>
          /\ CliPatientId(attempts[i].orig) = <<Sha256Hex("P1" \o EnginePepper)>>

-----------------------------------------------------------------------------
(* C18 *)

\* C18: within one run, distinct input files are written under distinct output
\* file names: every file written is still in the output folder as its own loop
\* iteration wrote it.
C18_DistinctOutputNames ==
    /\ \A i, j \in WrittenAttempts :
          attempts[i].path # attempts[j].path
             => attempts[i].new_filename # attempts[j].new_filename
    /\ \A i \in WrittenAttempts :
          /\ attempts[i].new_filename \in DOMAIN out_dir
          /\ out_dir[attempts[i].new_filename] = attempts[i].index

\* C18 witness: a run is over in which two input files were written under one
\* name, and the output folder holds the later one only
C18_Witness ==
    /\ pc = "done"
    /\ \E i, j \in WrittenAttempts :
          /\ i < j
          /\ attempts[i].new_filename = attempts[j].new_filename
          /\ out_dir[attempts[i].new_filename] = attempts[j].index

====
